---- MODULE Spec2Model ----
(***************************************************************************)
(* State-machine model of the browser client of the AI Finance Assistant:  *)
(* the App orchestrator (two builds of App.js are in the repository: the   *)
(* one without login, "legacy", and the one with login, "auth"), the       *)
(* PlaidLogin demo-mode flow, the Dashboard's render-time fallbacks and    *)
(* the Chatbot component.                                                  *)
(*                                                                         *)
(* JavaScript values are tagged records, so that truthiness, Array.isArray *)
(* and property access can be computed the way the engine computes them.   *)
(***************************************************************************)
EXTENDS Integers, Sequences, FiniteSets, TLC

\* ------------------------------------------------------------------ bounds
\* clicks that start something: Use Demo Data, Refresh Analysis, Send Email,
\* and log-ins through the Auth screen
MaxClicks == 3
\* chat messages the user sends
MaxTurns == 2

\* --------------------------------------------------------- JavaScript values
Undef == [t |-> "undefined"]
Null == [t |-> "null"]
Num(n) == [t |-> "number", n |-> n]
Str(s) == [t |-> "string", s |-> s]
Bool(b) == [t |-> "boolean", b |-> b]
Arr(items) == [t |-> "array", items |-> items]
Obj(f) == [t |-> "object", f |-> f]

\* ToBoolean: undefined, null, 0, "" and false are falsy, all else truthy
Truthy(v) ==
  CASE v.t = "undefined" -> FALSE
    [] v.t = "null" -> FALSE
    [] v.t = "number" -> v.n # 0
    [] v.t = "string" -> v.s # ""
    [] v.t = "boolean" -> v.b
    [] OTHER -> TRUE

\* a || b
Or(a, b) == IF Truthy(a) THEN a ELSE b

\* a ?? b
Nullish(a, b) == IF a.t \in {"undefined", "null"} THEN b ELSE a

\* !!a
BangBang(a) == Bool(Truthy(a))

IsArray(v) == v.t = "array"

\* o.k throws a TypeError exactly when o is null or undefined
AccessThrows(o) == o.t \in {"undefined", "null"}

\* o.k for an o that is not null or undefined
Get(o, k) ==
  IF o.t = "object" /\ k \in DOMAIN o.f THEN o.f[k] ELSE Undef

\* ------------------------------------------------------------ sample payloads
\* A subscription object as the backend sends it; an absent key reads as
\* undefined, which is what a field holding Undef reads as too.
Sub(merchant, name, contact_email, email, negotiation_email, email_subject, email_sent) ==
  Obj([merchant |-> merchant, name |-> name, contact_email |-> contact_email,
       email |-> email, negotiation_email |-> negotiation_email,
       email_subject |-> email_subject, email_sent |-> email_sent])

sNetflix ==
  Sub(Str("Netflix"), Undef, Str("billing@netflix.com"), Undef,
      Str("Dear Netflix..."), Undef, Undef)
\* same merchant in another letter case; its contact is no e-mail address
sLower ==
  Sub(Str("netflix"), Undef, Str("netflix.com/help"), Undef,
      Undef, Str("Lower my bill"), Bool(FALSE))
\* a second entry of the same merchant, with a letter but no contact
sFamily ==
  Sub(Str("Netflix"), Undef, Undef, Undef, Str("Dear Netflix family team..."),
      Undef, Undef)
\* no merchant key: the name key carries the display name
sHulu ==
  Sub(Undef, Str("Hulu"), Undef, Str("care@hulu.com"),
      Str("Dear Hulu..."), Undef, Undef)
sSent ==
  Sub(Str("Spotify"), Undef, Undef, Undef, Undef, Undef, Bool(TRUE))
sGym ==
  Sub(Str("Gym"), Undef, Undef, Undef, Undef, Undef, Undef)
\* neither merchant nor name
sAnon ==
  Sub(Undef, Undef, Str("support@example.com"), Undef, Undef, Undef, Undef)

\* strings s for which s.includes('@') is true
HasAt(s) ==
  s \in {"billing@netflix.com", "care@hulu.com", "support@example.com"}

ListA == Arr(<<sNetflix, sLower, sFamily>>)
ListB == Arr(<<sHulu, sSent, sGym, sAnon>>)
ListNull == Arr(<<sGym, Null>>)
SubscriptionFields ==
  { Undef, Null, Str("none"), Num(2), Obj([count |-> Num(1)]),
    ListA, ListB, ListNull }

aObj == Obj([type |-> Str("overspend"), message |-> Str("Dining is up 40%")])
AlertFields == { Undef, Num(7), Arr(<<Str("Rent is due"), aObj>>) }

eTop ==
  Obj([to |-> Str("billing@netflix.com"), subject |-> Str("Hello"),
       body |-> Str("Top-level email"), email_sent |-> Bool(TRUE),
       merchant |-> Str("Netflix")])
EmailFields == { Undef, Arr(<<eTop>>) }

F30 == Obj([total_30day_forecast |-> Num(1200)])
FRes == Obj([total_4week_forecast |-> Num(900)])
\* <<forecast, forecast_results>> of a response
ForecastFields ==
  { <<Undef, Undef>>, <<F30, Undef>>, <<Undef, FRes>>, <<F30, FRes>>,
    <<Num(0), FRes>>, <<Num(0), Undef>>, <<Null, FRes>> }

Resp(fc, s, a, e) ==
  Obj([forecast |-> fc[1], forecast_results |-> fc[2], subscriptions |-> s,
       alerts |-> a, emails |-> e])

\* what `await res.json()` of analyze_finances can yield: a null body, a body
\* that is no object, and objects that vary the forecast keys, the
\* subscriptions with the emails, and the alerts
AnalysisPayloads ==
  { Null, Num(1) }
  \cup { Resp(fc, Undef, Undef, Undef) : fc \in ForecastFields }
  \cup { Resp(<<F30, Undef>>, s, Undef, Undef) : s \in SubscriptionFields }
  \cup { Resp(<<F30, Undef>>, s, Undef, Arr(<<eTop>>)) : s \in {Undef, ListB} }
  \cup { Resp(<<Undef, FRes>>, ListA, a, Undef) : a \in AlertFields }

\* how a request settles: fetch rejects, res.json() rejects, or a body is parsed
Rejected == [kind |-> "reject", data |-> Undef]
BadJson == [kind |-> "badjson", data |-> Undef]
Json(d) == [kind |-> "json", data |-> d]
AnalysisOutcomes == { Rejected, BadJson } \cup { Json(d) : d \in AnalysisPayloads }

\* --------------------------------------------- runFullAnalysis: normalization
FAILED == Str("Failed to run analysis.")

\* mutant: the two keys read in the other order
forecastPayloadSwapped(data) ==
  Or(Or(Get(data, "forecast_results"), Get(data, "forecast")), Null)

\* data.forecast || data.forecast_results || null
forecastPayload(data) ==
  Or(Or(Get(data, "forecast"), Get(data, "forecast_results")), Null)

\* mutant: a lone object is taken for a one-element list
arrayOrEmptyWrapping(v) ==
  IF IsArray(v) THEN v ELSE IF v.t = "object" THEN Arr(<<v>>) ELSE Arr(<<>>)

\* Array.isArray(v) ? v : []
arrayOrEmpty(v) == IF IsArray(v) THEN v ELSE Arr(<<>>)

\* mutant: the filter without its email_sent disjunct
keepSubUnsentOnly(s) ==
  Truthy(Or(Get(s, "negotiation_email"), Get(s, "contact_email")))

\* the filter of the email derivation (App.js without login)
keepSub(s) ==
  Truthy(Or(Or(Get(s, "negotiation_email"), Get(s, "email_sent")),
            Get(s, "contact_email")))

\* the map of the email derivation
toEmail(s) ==
  Obj([to |-> Or(Get(s, "contact_email"), Str("Not found")),
       subject |-> Or(Get(s, "email_subject"), Str("Subscription Discount Request")),
       body |-> Or(Get(s, "negotiation_email"), Str("")),
       email_sent |-> BangBang(Get(s, "email_sent")),
       merchant |-> Or(Or(Get(s, "merchant"), Get(s, "name")), Str("Unknown"))])

\* the callbacks read s.negotiation_email: a null or undefined element throws
fromSubsThrows(data) ==
  LET subs == arrayOrEmpty(Get(data, "subscriptions")).items
  IN \E i \in 1..Len(subs) : AccessThrows(subs[i])

fromSubs(data) ==
  LET subs == arrayOrEmpty(Get(data, "subscriptions")).items
      kept == SelectSeq(subs, keepSub)
  IN [i \in 1..Len(kept) |-> toEmail(kept[i])]

\* [...topLevelEmails, ...fromSubs] in App.js without login; [] in the App with login
emailsOf(bld, data) ==
  IF bld = "auth" THEN Arr(<<>>)
  ELSE Arr(arrayOrEmpty(Get(data, "emails")).items \o fromSubs(data))

\* mutant: a forecast once shown is kept when the response carries none
analysisApplyKeeping(bld, o, cur) ==
  IF o.kind # "json" \/ AccessThrows(o.data)
  THEN [cur EXCEPT !.analysisError = FAILED]
  ELSE LET upd == [cur EXCEPT
                     !.forecast = Or(forecastPayload(o.data), cur.forecast),
                     !.subscriptions = arrayOrEmpty(Get(o.data, "subscriptions")),
                     !.alerts = arrayOrEmpty(Get(o.data, "alerts"))]
       IN IF bld # "auth" /\ fromSubsThrows(o.data)
          THEN [upd EXCEPT !.analysisError = FAILED]
          ELSE [upd EXCEPT !.emails = emailsOf(bld, o.data)]

\* The state slices after the continuation of runFullAnalysis has run on
\* outcome o, from the slices cur it found.  The setters run in source order,
\* so an exception leaves the earlier ones applied.
analysisApply(bld, o, cur) ==
  IF o.kind # "json" \/ AccessThrows(o.data)
  THEN [cur EXCEPT !.analysisError = FAILED]
  ELSE LET upd == [cur EXCEPT
                     !.forecast = forecastPayload(o.data),
                     !.subscriptions = arrayOrEmpty(Get(o.data, "subscriptions")),
                     !.alerts = arrayOrEmpty(Get(o.data, "alerts"))]
       IN IF bld # "auth" /\ fromSubsThrows(o.data)
          THEN [upd EXCEPT !.analysisError = FAILED]
          ELSE [upd EXCEPT !.emails = emailsOf(bld, o.data)]

\* whether the continuation ended in the catch block
analysisFailed(bld, o) ==
  \/ o.kind # "json"
  \/ AccessThrows(o.data)
  \/ bld # "auth" /\ fromSubsThrows(o.data)

\* ------------------------------------------------------------ what is rendered
\* App's return: the Dashboard (and the Chatbot) are rendered when an access
\* token is held, in the App with login only while logged in
DashboardShown(bld, auth, access) ==
  Truthy(access) /\ (bld = "auth" => Truthy(auth))

\* PlaidLogin is rendered while there is no access token
PlaidLoginShown(bld, auth, access) ==
  ~Truthy(access) /\ (bld = "auth" => Truthy(auth))

\* Dashboard reads sub.merchant and a.type of every element while rendering:
\* a null or undefined element throws, and nothing catches a render error
renderThrows(bld, auth, access, subs, alrts) ==
  /\ DashboardShown(bld, auth, access)
  /\ \/ \E i \in 1..Len(subs.items) : AccessThrows(subs.items[i])
     \/ \E i \in 1..Len(alrts.items) : AccessThrows(alrts.items[i])

\* subscriptions && subscriptions.length > 0 ? cards : 'No subscriptions found'
\* (and the same for alerts): the elements a list section renders
renderedList(list) == IF Len(list.items) > 0 THEN list.items ELSE <<>>

\* the card's display name and contact
subName(sub) == Or(Or(Get(sub, "merchant"), Get(sub, "name")), Str("Unknown"))
subContact(sub) == Or(Or(Get(sub, "contact_email"), Get(sub, "email")), Str("Not found"))

\* whether the card of sub offers the Send Email button
sendOffered(bld, sub) ==
  LET contact == subContact(sub)
  IN /\ bld = "auth"
     /\ Truthy(Get(sub, "negotiation_email")) \/ contact # Str("Not found")
     /\ ~Truthy(Get(sub, "email_sent"))
     /\ contact # Str("Not found")
     /\ contact.t = "string" /\ HasAt(contact.s)

\* the emailData the button passes to onSendEmail
emailDataOf(sub) ==
  [to |-> subContact(sub),
   subject |-> Or(Get(sub, "email_subject"), Str("Subscription Discount Request")),
   body |-> Get(sub, "negotiation_email"),
   merchant |-> subName(sub)]

Max(a, b) == IF a >= b THEN a ELSE b

\* transactions.slice(0, 10)
DisplayLimit == 10

\* mutant: slice(-10), the last ten
shownTransactionsLastTen(txs) ==
  IF txs.t = "array" /\ Len(txs.items) > 0
  THEN SubSeq(txs.items, Max(1, Len(txs.items) - DisplayLimit + 1), Len(txs.items))
  ELSE <<>>

\* transactions && transactions.length > 0 ? transactions.slice(0, 10).map(...)
\* : 'No transactions found': the transactions the Dashboard renders
shownTransactions(txs) ==
  IF txs.t = "array" /\ Len(txs.items) > 0
  THEN SubSeq(txs.items, 1, IF Len(txs.items) < DisplayLimit THEN Len(txs.items)
                            ELSE DisplayLimit)
  ELSE <<>>

\* ------------------------------------------------------------ handleSendEmail
\* mutant: merchants compared without regard to letter case
markSentAnyCase(sub, merchant) ==
  IF LET lower(v) == IF v = Str("Netflix") THEN Str("netflix") ELSE v
     IN lower(Get(sub, "merchant")) = lower(merchant)
  THEN Obj([sub.f EXCEPT !.email_sent = Bool(TRUE)])
  ELSE sub

\* sub.merchant === emailData.merchant ? { ...sub, email_sent: true } : sub
markSent(sub, merchant) ==
  IF Get(sub, "merchant") = merchant
  THEN Obj([sub.f EXCEPT !.email_sent = Bool(TRUE)])
  ELSE sub

\* prevSubs.map(...)
markAllSent(subs, merchant) ==
  Arr([i \in 1..Len(subs.items) |-> markSent(subs.items[i], merchant)])

\* what `await response.json()` of send_email can yield
SendPayloads ==
  { Null, Obj([success |-> Bool(TRUE)]),
    Obj([success |-> Bool(FALSE), error |-> Str("SMTP refused")]) }
SendOutcomes == { Rejected, BadJson } \cup { Json(d) : d \in SendPayloads }

\* mutant: every parsed answer counts as a success
sendSucceededOnAnyAnswer(o) == o.kind = "json" /\ ~AccessThrows(o.data)

\* the try block reached the branch of `if (result.success)`
sendSucceeded(o) == o.kind = "json" /\ ~AccessThrows(o.data) /\ Truthy(Get(o.data, "success"))

\* the blocking alert() handleSendEmail raises: the template and the value
\* interpolated into it
sendAlert(o, to) ==
  IF o.kind # "json" \/ AccessThrows(o.data)
  THEN [text |-> "Failed to send email. Please try again.", arg |-> Undef]
  ELSE IF Truthy(Get(o.data, "success"))
       THEN [text |-> "Email sent successfully to ${emailData.to}!", arg |-> to]
       ELSE [text |-> "Failed to send email: ${result.error}",
             arg |-> Get(o.data, "error")]

\* ---------------------------------------------------------- get_transactions
tx1 == Obj([name |-> Str("Coffee"), amount |-> Num(4)])
tx2 == Obj([description |-> Str("Salary"), amount |-> Num(-3000)])
\* a list longer than the Dashboard shows
txLong == Arr([i \in 1..11 |-> Obj([name |-> Str("Card payment"), amount |-> Num(i)])])
TransactionPayloads ==
  { Null, Obj([transactions |-> Undef]), Obj([transactions |-> Arr(<<tx1, tx2>>)]) }
TransactionOutcomes == { Rejected, BadJson } \cup { Json(d) : d \in TransactionPayloads }

\* mutant: the catch block empties the list
transactionsApplyClearing(o, cur) ==
  IF o.kind # "json" \/ AccessThrows(o.data) THEN Arr(<<>>)
  ELSE Or(Get(o.data, "transactions"), Arr(<<>>))

\* setTransactions(data.transactions || []), skipped when the try block throws
transactionsApply(o, cur) ==
  IF o.kind # "json" \/ AccessThrows(o.data) THEN cur
  ELSE Or(Get(o.data, "transactions"), Arr(<<>>))

\* -------------------------------------------------------------- exchange_token
ACCESS == Str("access-sandbox-1")
ExchangePayloads == { Null, Obj([error |-> Str("INVALID_PUBLIC_TOKEN")]),
                      Obj([access_token |-> ACCESS]) }
ExchangeOutcomes == { Rejected, BadJson } \cup { Json(d) : d \in ExchangePayloads }

\* the user's token: the one validateToken finds stored at mount and the one
\* a log-in yields
STORED == Str("jwt-ada")
FRESH == STORED
USER == Obj([email |-> Str("ada@example.com")])

\* ------------------------------------------------------------------- state
VARIABLES
  build,            \* which App.js runs: "legacy" (no login) or "auth"
  localToken,       \* localStorage auth_token
  authToken, user, accessToken, transactions, forecast, subscriptions,
  alerts, emails, loadingAnalysis, analysisError,   \* App's useState slices
  crashed,          \* a render threw: React unmounted the tree
  validating,       \* validateToken awaits create_link_token
  sandboxPending,   \* handleSandboxMode calls awaiting create_sandbox_token
  exchangePending,  \* handleSandboxMode calls awaiting exchange_token
  txPending,        \* handlePlaidSuccess calls awaiting get_transactions
  runs,             \* ids of the runFullAnalysis calls awaiting analyze_finances
  nextRun,          \* id of the next run (ids are in issue order)
  sends,            \* handleSendEmail calls awaiting send_email
  nextSend,
  clicks,           \* clicks so far
  newestDone,       \* highest id among the runs that have settled
  flipped,          \* a send has set email_sent locally since the last run
  last,             \* the handler step taken last, with what the network gave it
  categoryFetch,    \* the render after that step requested spending_categories
  ended,            \* what the sessions ended by a logout left behind
  messages, input, loading, chatPending,   \* Chatbot's useState slices and request
  lastChat,
  displayedTotal    \* the total the Dashboard rendered last

appVars ==
  <<build, localToken, authToken, user, accessToken, transactions, forecast,
    subscriptions, alerts, emails, loadingAnalysis, analysisError, crashed,
    validating, sandboxPending, exchangePending, txPending, runs, nextRun,
    sends, nextSend, clicks, newestDone, flipped, last, categoryFetch, ended>>
chatVars == <<messages, input, loading, chatPending, lastChat>>
dashVars == <<displayedTotal>>
vars == <<appVars, chatVars, dashVars>>

Event(op, run, outcome, stale) ==
  [op |-> op, run |-> run, outcome |-> outcome, stale |-> stale]
NoOutcome == [kind |-> "none", data |-> Undef]

NotRendered == [t |-> "not rendered"]

InitChat ==
  /\ messages = <<[type |-> "bot", text |-> Str("Hi! I'm your financial assistant. Ask me about your spending, subscriptions, or financial advice!")]>>
  /\ input = Str("")
  /\ loading = FALSE
  /\ chatPending = <<>>
  /\ lastChat = Event("init", 0, NoOutcome, FALSE)

\* the state after App's first render and its mount effect; with observe the
\* history variable `ended` records what each logout leaves behind
InitApp(observe) ==
  /\ build \in {"legacy", "auth"}
  /\ localToken \in (IF build = "auth" THEN {Null, STORED} ELSE {Null})
  /\ authToken = Null
  /\ user = Null
  /\ accessToken = Null
  /\ transactions = Arr(<<>>)
  /\ forecast = Null
  /\ subscriptions = Arr(<<>>)
  /\ alerts = Arr(<<>>)
  /\ emails = Arr(<<>>)
  /\ loadingAnalysis = FALSE
  /\ analysisError = Null
  /\ crashed = FALSE
  /\ validating = (build = "auth" /\ localToken # Null)
  /\ sandboxPending = 0
  /\ exchangePending = 0
  /\ txPending = 0
  /\ runs = {}
  /\ nextRun = 1
  /\ sends = {}
  /\ nextSend = 1
  /\ clicks = 0
  /\ newestDone = 0
  /\ flipped = FALSE
  /\ last = Event("init", 0, NoOutcome, FALSE)
  /\ categoryFetch = FALSE
  /\ ended = [observed |-> observe, runs |-> {}, tx |-> 0, sends |-> {},
              data |-> {}]
  /\ InitChat
  /\ displayedTotal = NotRendered

Init == InitApp(FALSE)

dataVars == <<transactions, forecast, subscriptions, alerts, emails>>
flowVars == <<sandboxPending, exchangePending, txPending>>
sendVars == <<sends, nextSend>>
otherVars == <<chatVars, dashVars, build>>

\* ------------------------------------------------------- sessions and logout
\* the values the data slices are constructed with (useState([]), useState(null))
InitialSlices ==
  [transactions |-> Arr(<<>>), forecast |-> Null, subscriptions |-> Arr(<<>>),
   alerts |-> Arr(<<>>)]

\* the data slices the Dashboard is handed
shownSlices ==
  [transactions |-> transactions, forecast |-> forecast,
   subscriptions |-> subscriptions, alerts |-> alerts]

\* the slices analyze_finances fills
AnalysisSlices == {"forecast", "subscriptions", "alerts"}

\* what a logout leaves behind: the requests still in flight and the slices
\* that hold loaded data
endedAtLogout ==
  IF ended.observed
  THEN [observed |-> TRUE, runs |-> runs, tx |-> txPending,
        sends |-> {s.id : s \in sends},
        data |-> {k \in DOMAIN InitialSlices : shownSlices[k] # InitialSlices[k]}]
  ELSE ended

\* run r settles: it is no longer in flight; when its response is applied the
\* slices it fills hold data of the session that issued it
endedAfterRun(r, o, new) ==
  [ended EXCEPT
     !.runs = @ \ {r},
     !.data = IF analysisFailed(build, o) THEN @
              ELSE (@ \ AnalysisSlices)
                   \cup {k \in AnalysisSlices :
                           r \in ended.runs /\ new[k] # InitialSlices[k]}]

\* a get_transactions request settles, one issued before the last logout
\* (old) or after it
endedAfterTransactions(old, o, txs) ==
  [ended EXCEPT
     !.tx = IF old THEN @ - 1 ELSE @,
     !.data = IF o.kind # "json" \/ AccessThrows(o.data) THEN @
              ELSE (@ \ {"transactions"})
                   \cup {k \in {"transactions"} :
                           old /\ txs # InitialSlices.transactions}]

\* a send_email request settles
endedAfterSend(s) == [ended EXCEPT !.sends = @ \ {s.id}]

\* ------------------------------------------- Dashboard: fetchCategoryData
\* mutant: the effect without its loadingAnalysis conditions
fetchCategoryDataWhileLoading(setForecastCalled) ==
  categoryFetch' =
    /\ DashboardShown(build, authToken', accessToken') /\ ~crashed'
    /\ \/ ~DashboardShown(build, authToken, accessToken)
       \/ loadingAnalysis' # loadingAnalysis
       \/ setForecastCalled /\ (forecast'.t \in {"object", "array"} \/ forecast' # forecast)
    /\ Truthy(forecast')
    /\ Truthy(localToken')

\* The effect on [loadingAnalysis, forecast] of the render that follows a
\* step: it runs when the Dashboard mounts and when a dependency changed (a
\* newly parsed object is a new reference), and it requests
\* spending_categories when loadingAnalysis is false, forecast is truthy and
\* local storage holds an auth_token.
fetchCategoryData(setForecastCalled) ==
  categoryFetch' =
    /\ DashboardShown(build, authToken', accessToken') /\ ~crashed'
    /\ \/ ~DashboardShown(build, authToken, accessToken)
       \/ loadingAnalysis' # loadingAnalysis
       \/ setForecastCalled /\ (forecast'.t \in {"object", "array"} \/ forecast' # forecast)
    /\ ~loadingAnalysis' /\ Truthy(forecast')
    /\ Truthy(localToken') /\ ~loadingAnalysis'

\* ------------------------------------------------------------- validateToken
ValidateOutcomes == {"ok", "unauthorized", "reject"}

\* mutant: the status of the response is not looked at
validateTokenSettleAnyStatus(o) ==
  /\ validating /\ ~crashed
  /\ validating' = FALSE
  /\ localToken' = IF o = "reject" THEN Null ELSE localToken
  /\ authToken' = IF o = "reject" THEN authToken ELSE STORED
  /\ crashed' = renderThrows(build, authToken', accessToken, subscriptions, alerts)
  /\ last' = Event("validateToken", 0, [kind |-> o, data |-> Undef], FALSE)
  /\ UNCHANGED <<user, accessToken, dataVars, loadingAnalysis, analysisError,
                 flowVars, runs, nextRun, sendVars, clicks, newestDone, flipped,
                 otherVars, ended>>
  /\ fetchCategoryData(FALSE)

\* create_link_token settles for validateToken: a 401 and a rejected fetch
\* remove the stored token, every other status keeps it and sets authToken to
\* the token read before the request
validateTokenSettle(o) ==
  /\ validating /\ ~crashed
  /\ validating' = FALSE
  /\ localToken' = IF o = "ok" THEN localToken ELSE Null
  /\ authToken' = IF o = "ok" THEN STORED ELSE authToken
  /\ crashed' = renderThrows(build, authToken', accessToken, subscriptions, alerts)
  /\ last' = Event("validateToken", 0, [kind |-> o, data |-> Undef], FALSE)
  /\ UNCHANGED <<user, accessToken, dataVars, loadingAnalysis, analysisError,
                 flowVars, runs, nextRun, sendVars, clicks, newestDone, flipped,
                 otherVars, ended>>
  /\ fetchCategoryData(FALSE)

\* ------------------------------------------------- Auth and handleAuthSuccess
\* the Auth screen stores the token it obtained before it calls onAuthSuccess
authStores(token) == token

handleAuthSuccess(token, userData) ==
  /\ build = "auth" /\ ~Truthy(authToken) /\ ~crashed
  /\ clicks < MaxClicks
  /\ clicks' = clicks + 1
  /\ localToken' = authStores(token)
  /\ authToken' = token
  /\ user' = userData
  /\ crashed' = renderThrows(build, authToken', accessToken, subscriptions, alerts)
  /\ last' = Event("handleAuthSuccess", 0, NoOutcome, FALSE)
  /\ UNCHANGED <<accessToken, dataVars, loadingAnalysis, analysisError, validating,
                 flowVars, runs, nextRun, sendVars, newestDone, flipped, otherVars, ended>>
  /\ fetchCategoryData(FALSE)

\* ---------------------------------------------------------------- handleLogout
handleLogout ==
  /\ build = "auth" /\ DashboardShown(build, authToken, accessToken) /\ ~crashed
  /\ localToken' = Null
  /\ authToken' = Null
  /\ user' = Null
  /\ accessToken' = Null
  /\ last' = Event("handleLogout", 0, NoOutcome, FALSE)
  /\ ended' = endedAtLogout
  /\ UNCHANGED <<dataVars, loadingAnalysis, analysisError, crashed, validating,
                 flowVars, runs, nextRun, sendVars, clicks, newestDone, flipped,
                 otherVars>>
  /\ fetchCategoryData(FALSE)

\* ------------------------------------------------ PlaidLogin.handleSandboxMode
handleSandboxMode ==
  /\ PlaidLoginShown(build, authToken, accessToken) /\ ~crashed
  /\ clicks < MaxClicks
  /\ clicks' = clicks + 1
  /\ sandboxPending' = sandboxPending + 1
  /\ last' = Event("handleSandboxMode", 0, NoOutcome, FALSE)
  /\ UNCHANGED <<localToken, authToken, user, accessToken, dataVars,
                 loadingAnalysis, analysisError, crashed, validating,
                 exchangePending, txPending, runs, nextRun, sendVars, newestDone, flipped, otherVars, ended>>
  /\ fetchCategoryData(FALSE)

\* create_sandbox_token settles: a rejection, an unparsable body or a null body
\* ends the call with an unhandled rejection; otherwise exchange_token is
\* requested with sandboxData.public_token, whatever it is
sandboxTokenSettle(ok) ==
  /\ sandboxPending > 0 /\ ~crashed
  /\ sandboxPending' = sandboxPending - 1
  /\ exchangePending' = IF ok THEN exchangePending + 1 ELSE exchangePending
  /\ last' = Event("sandboxToken", 0, NoOutcome, FALSE)
  /\ UNCHANGED <<localToken, authToken, user, accessToken, dataVars,
                 loadingAnalysis, analysisError, crashed, validating, txPending,
                 runs, nextRun, sendVars, clicks, newestDone, flipped, otherVars, ended>>
  /\ fetchCategoryData(FALSE)

\* exchange_token settles; with a parsed, non-null body the call ends in
\* onSuccess(data.access_token), i.e. the first segment of handlePlaidSuccess:
\* setAccessToken(token) and the get_transactions request
exchangeTokenSettle(o) ==
  /\ exchangePending > 0 /\ ~crashed
  /\ exchangePending' = exchangePending - 1
  /\ IF o.kind = "json" /\ ~AccessThrows(o.data)
     THEN /\ accessToken' = Get(o.data, "access_token")
          /\ txPending' = txPending + 1
     ELSE UNCHANGED <<accessToken, txPending>>
  /\ crashed' = renderThrows(build, authToken, accessToken', subscriptions, alerts)
  /\ last' = Event("exchangeToken", 0, NoOutcome, FALSE)
  /\ UNCHANGED <<localToken, authToken, user, dataVars, loadingAnalysis,
                 analysisError, validating, sandboxPending, runs, nextRun,
                 sendVars, clicks, newestDone, flipped, otherVars, ended>>
  /\ fetchCategoryData(FALSE)

\* the first segment of runFullAnalysis, up to `await fetch`
startRun ==
  /\ loadingAnalysis' = TRUE
  /\ analysisError' = Null
  /\ runs' = runs \cup {nextRun}
  /\ nextRun' = nextRun + 1

\* get_transactions settles: the rest of handlePlaidSuccess
handlePlaidSuccessResume(o) ==
  /\ txPending > 0 /\ ~crashed
  /\ txPending' = txPending - 1
  /\ transactions' = transactionsApply(o, transactions)
  /\ startRun
  \* the catch block sees a rejected fetch and an unparsable body alike
  /\ last' = [op |-> "getTransactions", run |-> nextRun,
              outcome |-> IF o.kind = "json" THEN o ELSE Rejected,
              stale |-> FALSE]
  \* responses arrive in any order: the one settling was issued before the
  \* last logout or after it
  /\ \E old \in BOOLEAN :
       /\ old => ended.tx > 0
       /\ ~old => txPending > ended.tx
       /\ ended' = endedAfterTransactions(old, o, transactions')
  /\ UNCHANGED <<localToken, authToken, user, accessToken, forecast,
                 subscriptions, alerts, emails, crashed, validating,
                 sandboxPending, exchangePending, sendVars, clicks, newestDone,
                 flipped, otherVars>>
  /\ fetchCategoryData(FALSE)

\* a click on one of the two refresh buttons (disabled while loadingAnalysis)
onRefreshAnalysis ==
  /\ DashboardShown(build, authToken, accessToken) /\ ~crashed
  /\ ~loadingAnalysis
  /\ clicks < MaxClicks
  /\ clicks' = clicks + 1
  /\ startRun
  /\ last' = Event("onRefreshAnalysis", 0, NoOutcome, FALSE)
  /\ UNCHANGED <<localToken, authToken, user, accessToken, dataVars, crashed,
                 validating, flowVars, sendVars, newestDone, flipped,
                 otherVars, ended>>
  /\ fetchCategoryData(FALSE)

slices ==
  [forecast |-> forecast, subscriptions |-> subscriptions, alerts |-> alerts,
   emails |-> emails, analysisError |-> analysisError]

\* mutant: the finally block is skipped when the catch block ran
runSettlesBusyAfterCatch(r, o, new) ==
  /\ r \in runs /\ ~crashed
  /\ runs' = runs \ {r}
  /\ forecast' = new.forecast
  /\ subscriptions' = new.subscriptions
  /\ alerts' = new.alerts
  /\ emails' = new.emails
  /\ analysisError' = new.analysisError
  /\ loadingAnalysis' = (loadingAnalysis /\ new.analysisError # Null)
  /\ crashed' = renderThrows(build, authToken, accessToken, subscriptions', alerts')
  /\ newestDone' = Max(newestDone, r)
  /\ flipped' = (flipped /\ subscriptions' = subscriptions)
  /\ last' = [op |-> "analysis", run |-> r, outcome |-> o,
              stale |-> (r < newestDone), overFlip |-> flipped]
  /\ ended' = endedAfterRun(r, o, new)
  /\ UNCHANGED <<localToken, authToken, user, accessToken, transactions,
                 validating, flowVars, nextRun, sendVars, clicks, otherVars>>
  /\ fetchCategoryData(o.kind = "json" /\ ~AccessThrows(o.data))

\* analyze_finances settles for run r with outcome o: the continuation of
\* runFullAnalysis (try, catch, finally) runs; `new` is what it leaves
runSettles(r, o, new) ==
  /\ r \in runs /\ ~crashed
  /\ runs' = runs \ {r}
  /\ forecast' = new.forecast
  /\ subscriptions' = new.subscriptions
  /\ alerts' = new.alerts
  /\ emails' = new.emails
  /\ analysisError' = new.analysisError
  /\ loadingAnalysis' = FALSE
  /\ crashed' = renderThrows(build, authToken, accessToken, subscriptions', alerts')
  /\ newestDone' = Max(newestDone, r)
  /\ flipped' = (flipped /\ subscriptions' = subscriptions)
  /\ last' = [op |-> "analysis", run |-> r, outcome |-> o,
              stale |-> (r < newestDone), overFlip |-> flipped]
  /\ ended' = endedAfterRun(r, o, new)
  /\ UNCHANGED <<localToken, authToken, user, accessToken, transactions,
                 validating, flowVars, nextRun, sendVars, clicks, otherVars>>
  /\ fetchCategoryData(o.kind = "json" /\ ~AccessThrows(o.data))

\* a generation guard, which the code does not have: a superseded run's
\* response is dropped
runFullAnalysisGuarded(r, o) ==
  runSettles(r, o, IF r < newestDone THEN slices
                   ELSE analysisApply(build, o, slices))

runFullAnalysisSettle(r, o) ==
  runSettles(r, o, analysisApply(build, o, slices))

\* ------------------------------------------------------------ handleSendEmail
\* a click on the Send Email button of card i: the request is issued
onSendEmail(i) ==
  /\ DashboardShown(build, authToken, accessToken) /\ ~crashed
  /\ i \in 1..Len(subscriptions.items)
  /\ sendOffered(build, subscriptions.items[i])
  /\ clicks < MaxClicks
  /\ clicks' = clicks + 1
  /\ sends' = sends \cup {[id |-> nextSend,
                           email |-> emailDataOf(subscriptions.items[i])]}
  /\ nextSend' = nextSend + 1
  /\ last' = [op |-> "onSendEmail", run |-> nextSend, outcome |-> NoOutcome,
              stale |-> FALSE, card |-> i]
  /\ UNCHANGED <<localToken, authToken, user, accessToken, dataVars,
                 loadingAnalysis, analysisError, crashed, validating, flowVars,
                 runs, nextRun, newestDone, flipped, otherVars, ended>>
  /\ fetchCategoryData(FALSE)

\* send_email settles for request s with outcome o
handleSendEmailSettle(s, o) ==
  /\ s \in sends /\ ~crashed
  /\ sends' = sends \ {s}
  /\ IF sendSucceeded(o)
     THEN IF \E i \in 1..Len(subscriptions.items) : AccessThrows(subscriptions.items[i])
          THEN /\ crashed' = TRUE       \* the updater throws while React renders
               /\ UNCHANGED subscriptions
          ELSE /\ subscriptions' = markAllSent(subscriptions, s.email.merchant)
               /\ UNCHANGED crashed
     ELSE UNCHANGED <<subscriptions, crashed>>
  /\ flipped' = (flipped \/ subscriptions' # subscriptions)
  /\ last' = [op |-> "sendEmail", run |-> s.id, outcome |-> o, stale |-> FALSE,
              merchant |-> s.email.merchant, alert |-> sendAlert(o, s.email.to)]
  /\ UNCHANGED <<localToken, authToken, user, accessToken, transactions, forecast,
                 alerts, emails, loadingAnalysis, analysisError, validating,
                 flowVars, runs, nextRun, nextSend, clicks, newestDone, otherVars>>
  /\ ended' = endedAfterSend(s)
  /\ fetchCategoryData(FALSE)

\* ------------------------------------------------------------- specification
Next ==
  \/ \E o \in ValidateOutcomes : validateTokenSettle(o)
  \/ handleAuthSuccess(FRESH, USER)
  \/ handleLogout
  \/ handleSandboxMode
  \/ \E ok \in BOOLEAN : sandboxTokenSettle(ok)
  \/ \E o \in ExchangeOutcomes : exchangeTokenSettle(o)
  \/ \E o \in TransactionOutcomes : handlePlaidSuccessResume(o)
  \/ onRefreshAnalysis
  \/ \E r \in runs, o \in AnalysisOutcomes : runFullAnalysisSettle(r, o)
  \/ \E i \in 1..Len(subscriptions.items) : onSendEmail(i)
  \/ \E s \in sends, o \in SendOutcomes : handleSendEmailSettle(s, o)

Spec == Init /\ [][Next]_vars

\* ----------------------------------- specification: long transaction lists
\* The same App with get_transactions also answering a list longer than the
\* Dashboard shows, and analyze_finances answering one of two ways.
LongTransactionOutcomes ==
  TransactionOutcomes \cup { Json(Obj([transactions |-> txLong])) }
FewAnalysisOutcomes ==
  { Rejected, Json(Resp(<<F30, Undef>>, ListA, Undef, Undef)) }

NextTransactions ==
  \/ \E o \in ValidateOutcomes : validateTokenSettle(o)
  \/ handleAuthSuccess(FRESH, USER)
  \/ handleLogout
  \/ handleSandboxMode
  \/ \E ok \in BOOLEAN : sandboxTokenSettle(ok)
  \/ \E o \in ExchangeOutcomes : exchangeTokenSettle(o)
  \/ \E o \in LongTransactionOutcomes : handlePlaidSuccessResume(o)
  \/ onRefreshAnalysis
  \/ \E r \in runs, o \in FewAnalysisOutcomes : runFullAnalysisSettle(r, o)
  \/ \E i \in 1..Len(subscriptions.items) : onSendEmail(i)
  \/ \E s \in sends, o \in SendOutcomes : handleSendEmailSettle(s, o)

SpecTransactions == Init /\ [][NextTransactions]_vars

\* ------------------------------------------- specification: ended sessions
\* The same App with what each logout leaves behind recorded in `ended`, and
\* analyze_finances answering one of two ways.
InitSessions == InitApp(TRUE)

NextSessions ==
  \/ \E o \in ValidateOutcomes : validateTokenSettle(o)
  \/ handleAuthSuccess(FRESH, USER)
  \/ handleLogout
  \/ handleSandboxMode
  \/ \E ok \in BOOLEAN : sandboxTokenSettle(ok)
  \/ \E o \in ExchangeOutcomes : exchangeTokenSettle(o)
  \/ \E o \in TransactionOutcomes : handlePlaidSuccessResume(o)
  \/ onRefreshAnalysis
  \/ \E r \in runs, o \in FewAnalysisOutcomes : runFullAnalysisSettle(r, o)
  \/ \E i \in 1..Len(subscriptions.items) : onSendEmail(i)
  \/ \E s \in sends, o \in SendOutcomes : handleSendEmailSettle(s, o)

SpecSessions == InitSessions /\ [][NextSessions]_vars

\* ------------------------------------------------------------------- Chatbot
FALLBACK == Str("Sorry, I couldn't process that request.")
APOLOGY == Str("Sorry, there was an error processing your request.")

\* what the user types into the input box
InputTexts == { "", "   ", "Am I overspending?" }
quickQuestions ==
  { "What are my biggest expenses?", "Find my subscriptions",
    "How much will I spend next week?", "Give me financial advice" }

\* input.trim()
trim(s) == IF s = "   " THEN "" ELSE s

\* what `await response.json()` of chat can yield
ChatPayloads ==
  { Null,
    Obj([response |-> Str("You spent $40 on coffee.")]),
    Obj([error |-> Str("LLM unavailable")]),
    Obj([response |-> Str(""), error |-> Str("LLM returned nothing")]),
    Obj([response |-> Str("")]),
    Obj([response |-> Str("Here is a partial answer."), error |-> Str("rate limited")]),
    Obj([status |-> Str("ok")]) }
ChatOutcomes == { Rejected, BadJson } \cup { Json(d) : d \in ChatPayloads }

\* mutant: the error key read before the response key
botTextErrorFirst(data) == Or(Or(Get(data, "error"), Get(data, "response")), FALLBACK)

\* data.response || data.error || 'Sorry, I couldn't process that request.'
botText(data) == Or(Or(Get(data, "response"), Get(data, "error")), FALLBACK)

\* the bot turn the try/catch of sendMessage appends
botMessage(o) ==
  [type |-> "bot",
   text |-> IF o.kind # "json" \/ AccessThrows(o.data) THEN APOLOGY
            ELSE botText(o.data)]

userTurns == Len(SelectSeq(messages, LAMBDA m : m.type = "user"))

\* onChange of the input box, which is disabled while loading
onChange(text) ==
  /\ ~loading
  /\ input # Str(text)
  /\ input' = Str(text)
  /\ lastChat' = Event("onChange", 0, NoOutcome, FALSE)
  /\ UNCHANGED <<messages, loading, chatPending, appVars, dashVars>>

\* a quick-question button: setInput(question)
onQuickQuestion(q) ==
  /\ input # Str(q)
  /\ input' = Str(q)
  /\ lastChat' = Event("onQuickQuestion", 0, NoOutcome, FALSE)
  /\ UNCHANGED <<messages, loading, chatPending, appVars, dashVars>>

\* sendMessage up to `await fetch`; the Send button and the input box are
\* disabled while loading
sendMessage ==
  /\ ~loading
  /\ trim(input.s) # ""
  /\ userTurns < MaxTurns
  /\ messages' = Append(messages, [type |-> "user", text |-> input])
  /\ input' = Str("")
  /\ loading' = TRUE
  /\ chatPending' = Append(chatPending, [query |-> input])
  /\ lastChat' = [op |-> "sendMessage", run |-> Len(messages) + 1,
                  outcome |-> NoOutcome, stale |-> FALSE, query |-> input]
  /\ UNCHANGED <<appVars, dashVars>>

\* mutant: the bot turn replaces the last turn instead of following it
sendMessageSettleReplacing(o) ==
  /\ chatPending # <<>>
  /\ chatPending' = Tail(chatPending)
  /\ messages' = [messages EXCEPT ![Len(messages)] = botMessage(o)]
  /\ loading' = FALSE
  /\ lastChat' = [op |-> "chat", run |-> Len(messages) + 1, outcome |-> o,
                  stale |-> FALSE, query |-> Head(chatPending).query]
  /\ UNCHANGED <<input, appVars, dashVars>>

\* the chat request settles: the rest of sendMessage
sendMessageSettle(o) ==
  /\ chatPending # <<>>
  /\ chatPending' = Tail(chatPending)
  /\ messages' = Append(messages, botMessage(o))
  /\ loading' = FALSE
  /\ lastChat' = [op |-> "chat", run |-> Len(messages) + 1, outcome |-> o,
                  stale |-> FALSE, query |-> Head(chatPending).query]
  /\ UNCHANGED <<input, appVars, dashVars>>

NextChat ==
  \/ \E text \in InputTexts : onChange(text)
  \/ \E q \in quickQuestions : onQuickQuestion(q)
  \/ sendMessage
  \/ \E o \in ChatOutcomes : sendMessageSettle(o)

SpecChat == Init /\ [][NextChat]_vars

\* --------------------------------------------------- Dashboard: forecast total
\* the forecast props the total is computed from
DashForecasts ==
  { Null } \cup
  { Obj([total_30day_forecast |-> a, total_4week_forecast |-> b,
         total_forecast |-> c, total_2week_forecast |-> d]) :
      a \in {Undef, Num(0), Num(1200)}, b \in {Undef, Num(0), Num(900)},
      c \in {Undef, Num(0), Num(700)}, d \in {Undef, Num(0), Num(450)} }

\* mutant: the chain extended by total_2week_forecast
totalForecastWith2Week(fc) ==
  IF ~Truthy(fc) THEN Num(0)
  ELSE Or(Or(Or(Or(Get(fc, "total_30day_forecast"), Get(fc, "total_4week_forecast")),
                Get(fc, "total_forecast")),
             Get(fc, "total_2week_forecast")),
          Num(0))

\* mutant: the chain without its total_4week_forecast link
totalForecastSkipping4Week(fc) ==
  IF ~Truthy(fc) THEN Num(0)
  ELSE Or(Or(Get(fc, "total_30day_forecast"), Get(fc, "total_forecast")), Num(0))

\* (forecast && (forecast.total_30day_forecast || forecast.total_4week_forecast
\*               || forecast.total_forecast)) || 0
totalForecast(fc) ==
  IF ~Truthy(fc) THEN Num(0)
  ELSE Or(Or(Or(Get(fc, "total_30day_forecast"), Get(fc, "total_4week_forecast")),
             Get(fc, "total_forecast")),
          Num(0))

\* `$${Number(totalForecast).toFixed(2)}` for the whole numbers of the samples
toFixed2(v) == ToString(v.n) \o ".00"

\* what the primary stat card shows: the total, or Loading... without forecast
statCard(fc) ==
  IF Truthy(fc) THEN Str("$" \o toFixed2(totalForecast(fc))) ELSE Str("Loading...")

\* the Dashboard renders with forecast prop fc
DashboardRender(fc) ==
  /\ forecast' = fc
  /\ displayedTotal' = statCard(fc)
  /\ UNCHANGED <<build, localToken, authToken, user, accessToken, transactions,
                 subscriptions, alerts, emails, loadingAnalysis, analysisError,
                 crashed, validating, flowVars, runs, nextRun, sendVars, clicks,
                 newestDone, flipped, last, categoryFetch, ended, chatVars>>

NextDash == \E fc \in DashForecasts : DashboardRender(fc)

SpecDash == Init /\ [][NextDash]_vars

\* =================================================================== claims
\* the step just taken was the continuation of an analysis run
AnalysisStep == last'.op = "analysis" /\ last' # last
\* the state is the one an analysis run's continuation left
AfterAnalysis == last.op = "analysis"
AfterGoodAnalysis == AfterAnalysis /\ ~analysisFailed(build, last.outcome)
\* a value the claims call present: not undefined and not null
Present(v) == v.t \notin {"undefined", "null"}

\* C1: when an analysis run fails (network rejection, unparsable body, or an
\* exception while the response is processed), analysisError becomes
\* 'Failed to run analysis.', loadingAnalysis becomes false, and forecast,
\* subscriptions and alerts are left as they were: no partial update.
C1_FailureLeavesResults ==
  [][ (AnalysisStep /\ analysisFailed(build, last'.outcome))
      => /\ analysisError' = FAILED
         /\ loadingAnalysis' = FALSE
         /\ forecast' = forecast
         /\ subscriptions' = subscriptions
         /\ alerts' = alerts ]_vars

\* C1, where it does hold: the failures that happen before the first setter
\* (rejection, unparsable body, null body) change none of the three slices.
C1_EarlyFailureLeavesResults ==
  [][ (AnalysisStep /\ (last'.outcome.kind # "json" \/ AccessThrows(last'.outcome.data)))
      => /\ analysisError' = FAILED
         /\ loadingAnalysis' = FALSE
         /\ forecast' = forecast
         /\ subscriptions' = subscriptions
         /\ alerts' = alerts ]_vars

\* C2: there is no generation guard: the response of a run that settles after
\* a run issued later has settled is applied all the same, so the slices shown
\* are those of the older run's response.
C2_StaleResponseApplied ==
  (AfterGoodAnalysis /\ last.stale)
    => /\ forecast = forecastPayload(last.outcome.data)
       /\ subscriptions = arrayOrEmpty(Get(last.outcome.data, "subscriptions"))
       /\ alerts = arrayOrEmpty(Get(last.outcome.data, "alerts"))

C2_Witness ==
  /\ AfterGoodAnalysis /\ last.stale
  /\ last.run < newestDone
  /\ forecast = F30

\* the list C3 claims: one entry per subscription with a negotiation_email or
\* a contact_email (the fields read with the defaults the code gives them)
RECURSIVE C3_ClaimedEntries(_)
C3_ClaimedEntries(subs) ==
  IF subs = <<>> THEN <<>>
  ELSE LET s == Head(subs)
       IN IF Truthy(Get(s, "negotiation_email")) \/ Truthy(Get(s, "contact_email"))
          THEN <<toEmail(s)>> \o C3_ClaimedEntries(Tail(subs))
          ELSE C3_ClaimedEntries(Tail(subs))

\* the list the derivation of App.js without login builds
RECURSIVE C3_DerivedEntries(_)
C3_DerivedEntries(subs) ==
  IF subs = <<>> THEN <<>>
  ELSE LET s == Head(subs)
           pick(v, dflt) == IF Truthy(v) THEN v ELSE dflt
           entry == Obj([to |-> pick(Get(s, "contact_email"), Str("Not found")),
                         subject |-> pick(Get(s, "email_subject"),
                                          Str("Subscription Discount Request")),
                         body |-> pick(Get(s, "negotiation_email"), Str("")),
                         email_sent |-> Bool(Truthy(Get(s, "email_sent"))),
                         merchant |-> pick(Get(s, "merchant"),
                                           pick(Get(s, "name"), Str("Unknown")))])
       IN IF \/ Truthy(Get(s, "negotiation_email"))
             \/ Truthy(Get(s, "email_sent"))
             \/ Truthy(Get(s, "contact_email"))
          THEN <<entry>> \o C3_DerivedEntries(Tail(subs))
          ELSE C3_DerivedEntries(Tail(subs))

C3_NoTopLevelEmails ==
  /\ AfterGoodAnalysis
  /\ ~IsArray(Get(last.outcome.data, "emails"))

\* C3 as claimed: without a top-level emails array, emails holds one entry per
\* subscription that has a negotiation_email or a contact_email, and no other.
C3_Original ==
  C3_NoTopLevelEmails
    => emails.items =
         C3_ClaimedEntries(arrayOrEmpty(Get(last.outcome.data, "subscriptions")).items)

\* C3 as amended: in App.js without login, one entry per subscription whose
\* negotiation_email, email_sent or contact_email is truthy, with the defaults
\* 'Not found', '' and 'Unknown'; in the App with login, emails is empty.
C3_Derivation ==
  C3_NoTopLevelEmails
    => emails.items =
         IF build = "auth" THEN <<>>
         ELSE C3_DerivedEntries(arrayOrEmpty(Get(last.outcome.data, "subscriptions")).items)

C3_Witness ==
  /\ C3_NoTopLevelEmails /\ build = "legacy"
  /\ Get(last.outcome.data, "subscriptions") = ListB
  /\ Len(emails.items) = 3
  /\ Get(emails.items[1], "to") = Str("Not found")
  /\ Get(emails.items[2], "merchant") = Str("Spotify")
  /\ Get(emails.items[3], "merchant") = Str("Unknown")

\* the step just taken was the continuation of a send_email call that the
\* backend reported as successful, and React still renders the tree
SendSuccessStep ==
  /\ last'.op = "sendEmail" /\ last' # last
  /\ sendSucceeded(last'.outcome)
  /\ ~crashed'

\* sub with email_sent = true and every other key as it was
C4_Sent(sub) == Obj([k \in DOMAIN sub.f |-> IF k = "email_sent" THEN Bool(TRUE) ELSE sub.f[k]])

\* C4: on a successful send for merchant m, exactly the subscriptions whose
\* merchant key equals m (same letter case) get email_sent = true; all others
\* stay as they were; the list keeps its length and order.
C4_SendFlipsExactMerchant ==
  [][ SendSuccessStep
      => /\ Len(subscriptions'.items) = Len(subscriptions.items)
         /\ \A i \in 1..Len(subscriptions.items) :
              LET old == subscriptions.items[i]
              IN subscriptions'.items[i] =
                   IF old.t = "object" /\ "merchant" \in DOMAIN old.f
                      /\ old.f.merchant = last'.merchant
                   THEN C4_Sent(old) ELSE old ]_vars

C4_Witness ==
  /\ last.op = "sendEmail" /\ sendSucceeded(last.outcome)
  /\ last.merchant = Str("Netflix")
  /\ Len(subscriptions.items) = 3
  /\ Get(subscriptions.items[1], "email_sent") = Bool(TRUE)
  /\ Get(subscriptions.items[2], "merchant") = Str("netflix")
  /\ Get(subscriptions.items[2], "email_sent") = Bool(FALSE)
  /\ Get(subscriptions.items[3], "email_sent") = Bool(TRUE)

\* C5 as claimed: after a successful run forecast is the response's forecast
\* key if present, else its forecast_results key if present, else null.
C5_Original ==
  AfterGoodAnalysis
    => forecast =
         IF Present(Get(last.outcome.data, "forecast"))
         THEN Get(last.outcome.data, "forecast")
         ELSE IF Present(Get(last.outcome.data, "forecast_results"))
              THEN Get(last.outcome.data, "forecast_results")
              ELSE Null

\* C5 as amended: forecast is the forecast key if it is truthy, else the
\* forecast_results key if that is truthy, else null (a present but falsy
\* value, such as 0, is passed over).
C5_FirstTruthy ==
  AfterGoodAnalysis
    => forecast =
         IF Truthy(Get(last.outcome.data, "forecast"))
         THEN Get(last.outcome.data, "forecast")
         ELSE IF Truthy(Get(last.outcome.data, "forecast_results"))
              THEN Get(last.outcome.data, "forecast_results")
              ELSE Null

C5_Witness ==
  /\ AfterGoodAnalysis
  /\ Get(last.outcome.data, "forecast") = Num(0)
  /\ Get(last.outcome.data, "forecast_results") = FRes
  /\ forecast = FRes

\* C6: after a successful run subscriptions (and alerts) is the response's key
\* unchanged when that is an array and the empty list for every other value;
\* a value that is no array makes no run fail, and the list rendered is empty.
C6_ArrayOrEmpty ==
  (AfterAnalysis /\ last.outcome.kind = "json" /\ ~AccessThrows(last.outcome.data))
    => LET s == Get(last.outcome.data, "subscriptions")
           a == Get(last.outcome.data, "alerts")
           good == ~analysisFailed(build, last.outcome)
       IN /\ (good /\ s.t = "array") => subscriptions = s
          /\ (good /\ a.t = "array") => alerts = a
          /\ s.t # "array" => /\ good
                              /\ subscriptions = Arr(<<>>)
                              /\ renderedList(subscriptions) = <<>>
          /\ (good /\ a.t # "array") => /\ alerts = Arr(<<>>)
                                        /\ renderedList(alerts) = <<>>

C6_Witness ==
  /\ AfterGoodAnalysis
  /\ Get(last.outcome.data, "subscriptions") = Obj([count |-> Num(1)])
  /\ subscriptions = Arr(<<>>)
  /\ analysisError = Null
  /\ ~crashed

\* the slices a run leaves when it starts from App's initial state
C7_Blank ==
  [forecast |-> Null, subscriptions |-> Arr(<<>>), alerts |-> Arr(<<>>),
   emails |-> Arr(<<>>), analysisError |-> Null]

\* C7: a successful run replaces forecast, subscriptions, alerts and emails
\* wholesale: what it leaves is what the same response leaves from a blank
\* state, whatever the state before the run was.
C7_WholesaleReplace ==
  AfterGoodAnalysis
    => LET ref == analysisApply(build, last.outcome, C7_Blank)
       IN /\ forecast = ref.forecast
          /\ subscriptions = ref.subscriptions
          /\ alerts = ref.alerts
          /\ emails = ref.emails

\* a run has overwritten a list in which a send had set email_sent locally
C7_Witness ==
  /\ AfterGoodAnalysis
  /\ last.overFlip
  /\ subscriptions = ListA

\* C8: the chat message list is append-only: in every step the list before is
\* a prefix of the list after (no turn removed, reordered or edited), and
\* every turn has type user or bot.
C8_AppendOnly ==
  [][ /\ Len(messages') >= Len(messages)
      /\ SubSeq(messages', 1, Len(messages)) = messages
      /\ \A i \in 1..Len(messages') : messages'[i].type \in {"user", "bot"} ]_vars

C8_Witness ==
  /\ Len(messages) = 5
  /\ messages[2].type = "user" /\ messages[3].type = "bot"
  /\ messages[4].type = "user" /\ messages[5].type = "bot"
  /\ messages[2].text # messages[4].text
  /\ ~loading

\* the step just taken was sendMessage up to its request, or its continuation
C9_SendStep == lastChat'.op = "sendMessage" /\ lastChat' # lastChat
C9_SettleStep == lastChat'.op = "chat" /\ lastChat' # lastChat
\* the request was rejected, its body did not parse, or the body was null
C9_Failed(o) == o.kind # "json" \/ AccessThrows(o.data)

\* what every sendMessage does before the request settles: one user turn with
\* the input text, one request with the same text as its query
C9_Send ==
  C9_SendStep
    => /\ trim(input.s) # ""
       /\ messages' = Append(messages, [type |-> "user", text |-> input])
       /\ chatPending' = chatPending \o <<[query |-> input]>>

\* C9 as claimed: the bot turn appended when the request settles carries the
\* response field if present, else the error field if present, else the
\* fallback string; the apology when the request fails; loading is false after.
C9_Original ==
  [][ /\ C9_Send
      /\ C9_SettleStep
           => LET o == lastChat'.outcome
                  text == IF C9_Failed(o) THEN APOLOGY
                          ELSE IF Present(Get(o.data, "response"))
                               THEN Get(o.data, "response")
                               ELSE IF Present(Get(o.data, "error"))
                                    THEN Get(o.data, "error")
                                    ELSE FALLBACK
              IN /\ messages' = Append(messages, [type |-> "bot", text |-> text])
                 /\ ~loading' ]_vars

\* C9 as amended: the bot turn carries the response field if it is truthy,
\* else the error field if that is truthy, else the fallback string (an empty
\* response is passed over); the apology when the request is rejected, the
\* body does not parse or the body is null; it directly follows the user turn
\* of the same request, and loading is false after.
C9_FirstTruthyReply ==
  [][ /\ C9_Send
      /\ C9_SettleStep
           => LET o == lastChat'.outcome
                  text == IF C9_Failed(o) THEN APOLOGY
                          ELSE IF Truthy(Get(o.data, "response"))
                               THEN Get(o.data, "response")
                               ELSE IF Truthy(Get(o.data, "error"))
                                    THEN Get(o.data, "error")
                                    ELSE FALLBACK
              IN /\ messages' = Append(messages, [type |-> "bot", text |-> text])
                 /\ messages[Len(messages)] = [type |-> "user", text |-> lastChat'.query]
                 /\ ~loading' ]_vars

C9_Witness ==
  /\ lastChat.op = "chat"
  /\ lastChat.outcome = Json(Obj([response |-> Str(""), error |-> Str("LLM returned nothing")]))
  /\ Len(messages) = 3
  /\ messages[2] = [type |-> "user", text |-> Str("Find my subscriptions")]
  /\ messages[3] = [type |-> "bot", text |-> Str("LLM returned nothing")]
  /\ ~loading

\* the first present value among vs, 0 when there is none
RECURSIVE C10_FirstPresent(_)
C10_FirstPresent(vs) ==
  IF vs = <<>> THEN Num(0)
  ELSE IF Present(Head(vs)) THEN Head(vs) ELSE C10_FirstPresent(Tail(vs))

\* the first truthy value among vs, 0 when there is none
RECURSIVE C10_FirstTruthy(_)
C10_FirstTruthy(vs) ==
  IF vs = <<>> THEN Num(0)
  ELSE IF Truthy(Head(vs)) THEN Head(vs) ELSE C10_FirstTruthy(Tail(vs))

C10_Rendered == displayedTotal # NotRendered /\ forecast.t = "object"

\* C10 as claimed: the total shown is the first present field among
\* total_30day_forecast, total_4week_forecast, total_forecast and
\* total_2week_forecast, and 0 when none of the four is present.
C10_Original ==
  C10_Rendered
    => displayedTotal =
         Str("$" \o toFixed2(C10_FirstPresent(
           <<Get(forecast, "total_30day_forecast"), Get(forecast, "total_4week_forecast"),
             Get(forecast, "total_forecast"), Get(forecast, "total_2week_forecast")>>)))

\* C10 as amended: the total shown is the first truthy (non-zero) field among
\* total_30day_forecast, total_4week_forecast and total_forecast, and 0 when
\* none of the three is; total_2week_forecast is never read.
C10_FirstTruthyOfThree ==
  C10_Rendered
    => displayedTotal =
         Str("$" \o toFixed2(C10_FirstTruthy(
           <<Get(forecast, "total_30day_forecast"), Get(forecast, "total_4week_forecast"),
             Get(forecast, "total_forecast")>>)))

C10_Witness ==
  /\ forecast = Obj([total_30day_forecast |-> Undef, total_4week_forecast |-> Undef,
                     total_forecast |-> Undef, total_2week_forecast |-> Num(450)])
  /\ displayedTotal = Str("$0.00")

\* C11 as claimed: a forecast that lacks total_30day_forecast and has
\* total_4week_forecast is shown with total_4week_forecast as its total; a
\* forecast that lacks both is shown with $0.00.
C11_Original ==
  C10_Rendered
    => LET t30 == Get(forecast, "total_30day_forecast")
           t4w == Get(forecast, "total_4week_forecast")
       IN /\ (~Present(t30) /\ Present(t4w))
               => displayedTotal = Str("$" \o toFixed2(t4w))
          /\ (~Present(t30) /\ ~Present(t4w)) => displayedTotal = Str("$0.00")

\* C11 as amended: with total_30day_forecast absent or 0 and a non-zero
\* total_4week_forecast the total shown is total_4week_forecast; with both
\* absent or 0 the total shown is total_forecast when that is non-zero, and
\* $0.00 otherwise.
C11_FourWeekThenTotal ==
  C10_Rendered
    => LET t30 == Get(forecast, "total_30day_forecast")
           t4w == Get(forecast, "total_4week_forecast")
           tot == Get(forecast, "total_forecast")
       IN /\ (~Truthy(t30) /\ Truthy(t4w))
               => displayedTotal = Str("$" \o toFixed2(t4w))
          /\ (~Truthy(t30) /\ ~Truthy(t4w) /\ Truthy(tot))
               => displayedTotal = Str("$" \o toFixed2(tot))
          /\ (~Truthy(t30) /\ ~Truthy(t4w) /\ ~Truthy(tot))
               => displayedTotal = Str("$0.00")

C11_Witness ==
  /\ Get(forecast, "total_30day_forecast") = Undef
  /\ Get(forecast, "total_4week_forecast") = Num(900)
  /\ Get(forecast, "total_forecast") = Num(700)
  /\ displayedTotal = Str("$900.00")

\* the step just taken removed auth_token from local storage
C12_Removal == Truthy(localToken) /\ ~Truthy(localToken')
\* the step just taken was the continuation of validateToken
C12_ValidateStep == validating /\ ~validating'

\* C12 as claimed: auth_token is removed from local storage by a logout and by
\* a 401 of the link-token check on mount, and by no other event; after a 401
\* authToken is not set.
C12_Original ==
  [][ /\ C12_Removal
           => \/ last'.op = "handleLogout"
              \/ C12_ValidateStep /\ last'.outcome.kind = "unauthorized"
      /\ (C12_ValidateStep /\ last'.outcome.kind = "unauthorized")
           => ~Truthy(localToken') /\ ~Truthy(authToken') ]_vars

\* C12 as amended: auth_token is removed by a logout, by a 401 of the
\* link-token check on mount and by a rejection of that request (network
\* failure), and by no other event; in the last two cases authToken is left
\* as it was (so a user who has not logged in meanwhile stays on the login
\* screen) and no error message is stored, in every other case of the check
\* the token is kept and becomes authToken.
C12_TokenRemovals ==
  [][ /\ C12_Removal
           => \/ last'.op = "handleLogout"
              \/ C12_ValidateStep /\ last'.outcome.kind \in {"unauthorized", "reject"}
      /\ last'.op = "handleLogout" => ~Truthy(localToken')
      /\ (C12_ValidateStep /\ last'.outcome.kind \in {"unauthorized", "reject"})
           => /\ ~Truthy(localToken')
              /\ authToken' = authToken
              /\ analysisError' = analysisError
              /\ ~Truthy(authToken)
                   => /\ ~DashboardShown(build, authToken', accessToken')
                      /\ ~PlaidLoginShown(build, authToken', accessToken')
      /\ (C12_ValidateStep /\ last'.outcome.kind = "ok")
           => localToken' = localToken /\ authToken' = STORED ]_vars

C12_Witness ==
  /\ last.op = "validateToken" /\ last.outcome.kind = "reject"
  /\ build = "auth"
  /\ localToken = Null /\ authToken = Null /\ analysisError = Null

\* the step just taken was the continuation of a send_email call
C13_SettleStep == last'.op = "sendEmail" /\ sends' # sends
\* the backend answered with a body that is an object
C13_Answered(o) == o.kind = "json" /\ Present(o.data)
\* the call failed: no answer, or an answer whose success flag is not truthy
C13_SendFailed(o) == ~(C13_Answered(o) /\ Truthy(Get(o.data, "success")))

\* C13: when a send_email call fails, one blocking alert is raised (with the
\* backend's error text when the backend answered, the generic text
\* otherwise), no subscription changes, and no further send_email request is
\* issued.
C13_FailedSendAlertsOnly ==
  [][ (C13_SettleStep /\ C13_SendFailed(last'.outcome))
      => /\ subscriptions' = subscriptions
         /\ sends' \subseteq sends /\ Cardinality(sends') = Cardinality(sends) - 1
         /\ nextSend' = nextSend
         /\ crashed' = crashed
         /\ IF C13_Answered(last'.outcome)
            THEN last'.alert = [text |-> "Failed to send email: ${result.error}",
                                arg |-> Get(last'.outcome.data, "error")]
            ELSE last'.alert = [text |-> "Failed to send email. Please try again.",
                                arg |-> Undef] ]_vars

C13_Witness ==
  /\ last.op = "sendEmail"
  /\ last.outcome = Json(Obj([success |-> Bool(FALSE), error |-> Str("SMTP refused")]))
  /\ last.alert.arg = Str("SMTP refused")
  /\ subscriptions = ListA
  /\ sends = {}

\* the step just taken was the continuation of an analysis run
C14_SettleStep == runs' # runs /\ runs' \subseteq runs

C15_OnSuccessStep == txPending' > txPending
\* the step just taken was the rest of handlePlaidSuccess, after get_transactions
C15_ResumeStep == txPending' < txPending
\* get_transactions was rejected, or its body was unparsable or null
C15_Failed(o) == o.kind # "json" \/ ~Present(o.data)

\* C15: handlePlaidSuccess stores the access token and requests
\* get_transactions; analyze_finances is requested only once get_transactions
\* has settled; a failed get_transactions leaves transactions unchanged and
\* the analysis run starts all the same.
C15_LinkThenTransactionsThenAnalysis ==
  [][ /\ C15_OnSuccessStep
           => /\ txPending' = txPending + 1
              /\ runs' = runs /\ nextRun' = nextRun
              /\ transactions' = transactions
      /\ C15_ResumeStep
           => /\ txPending' = txPending - 1
              /\ runs' = runs \cup {nextRun} /\ nextRun \notin runs
              /\ loadingAnalysis'
              /\ accessToken' = accessToken
              /\ C15_Failed(last'.outcome) => transactions' = transactions
      /\ ~(runs' \subseteq runs)
           => C15_ResumeStep \/ last'.op = "onRefreshAnalysis" ]_vars

C15_Witness ==
  /\ last.op = "getTransactions" /\ C15_Failed(last.outcome)
  /\ transactions = Arr(<<tx1, tx2>>)
  /\ last.run \in runs
  /\ loadingAnalysis

\* C16: whenever the bank-link flow calls onSuccess (handlePlaidSuccess runs
\* up to its get_transactions request) the token passed is an access-token
\* string; without one accessToken stays null and nothing is requested.
C16_OnSuccessOnlyWithToken ==
  [][ /\ C15_OnSuccessStep => accessToken'.t = "string"
      /\ (accessToken = Null /\ accessToken' # Null) => accessToken'.t = "string" ]_vars

\* C17: spending_categories is requested only after an analysis has completed:
\* never while loadingAnalysis is true, and only with a forecast that a
\* completed run has made non-null (forecast changes by nothing but a run's
\* continuation, and in the App with login, the only build whose storage
\* holds the token the request needs, only by a run that succeeded).
C17_CategoriesAfterAnalysis ==
  [][ /\ categoryFetch'
           => /\ ~loadingAnalysis'
              /\ Truthy(forecast')
              /\ newestDone' > 0
              /\ build = "auth"
      /\ forecast' # forecast
           => /\ C14_SettleStep
              /\ build = "auth" => ~analysisFailed(build, last'.outcome) ]_vars

C17_Witness ==
  /\ categoryFetch
  /\ AfterGoodAnalysis
  /\ forecast = F30
  /\ ~loadingAnalysis

\* C18: the client never edits the transaction list: it changes only when
\* get_transactions answers, to the list that answer carries; the Dashboard
\* shows its first 10 elements in received order, all of them when there are
\* fewer than 10.
C18_FirstTenReadOnly ==
  [][ /\ transactions' # transactions
           => /\ C15_ResumeStep /\ ~C15_Failed(last'.outcome)
              /\ LET got == Get(last'.outcome.data, "transactions")
                 IN transactions' = IF got.t = "array" THEN got ELSE Arr(<<>>)
      /\ LET all == transactions'.items
             shown == shownTransactions(transactions')
         IN /\ Len(shown) <= 10
            /\ Len(all) <= 10 => shown = all
            /\ Len(all) > 10 => Len(shown) = 10
            /\ \A i \in 1..Len(shown) : shown[i] = all[i] ]_vars

C18_Witness ==
  /\ transactions = txLong
  /\ Len(shownTransactions(transactions)) = 10
  /\ DashboardShown(build, authToken, accessToken)

\* C19: whenever an analysis run is in flight loadingAnalysis is true, and a
\* second run is never started while one is pending.
C19_OneRunAtATime ==
  /\ runs # {} => loadingAnalysis
  /\ Cardinality(runs) <= 1

\* C20: with no run in flight, analysisError is non-null exactly when the run
\* issued last failed (stated for the states that run's continuation leaves),
\* and a run that succeeded leaves no error banner of another run.
C20_ErrorOfLatestRun ==
  /\ (AfterAnalysis /\ runs = {} /\ last.run = nextRun - 1)
       => (analysisError # Null <=> analysisFailed(build, last.outcome))
  /\ AfterGoodAnalysis => analysisError = Null

\* C21: right after send_email reported success for a card, every subscription
\* shown under that card's display name (merchant, else name, else 'Unknown')
\* has email_sent = true and offers no Send Email button.
C21_SentCardNotOfferedAgain ==
  (last.op = "sendEmail" /\ sendSucceeded(last.outcome) /\ ~crashed)
    => \A i \in 1..Len(subscriptions.items) :
         LET sub == subscriptions.items[i]
         IN (sub.t = "object" /\ subName(sub) = last.merchant)
              => /\ Get(sub, "email_sent") = Bool(TRUE)
                 /\ ~sendOffered(build, sub)

\* C22: after a logout the Dashboard shown to whoever logs in next holds no
\* transactions, forecast, subscriptions or alerts loaded before that logout,
\* and the response of a request that was in flight at a logout
\* (analyze_finances, get_transactions, send_email) changes no state when it
\* settles.
C22_NothingFromEndedSession ==
  [][ /\ (DashboardShown(build, authToken', accessToken') /\ ~crashed')
           => ended'.data = {}
      /\ (\E r \in ended.runs : r \notin runs')
           => UNCHANGED <<forecast, subscriptions, alerts, emails, analysisError>>
      /\ ended'.tx < ended.tx => transactions' = transactions
      /\ (\E id \in ended.sends : id \notin ended'.sends)
           => subscriptions' = subscriptions ]_vars

====
